---------------------------- MODULE Spec2Model ----------------------------
(***************************************************************************)
(* A model of the org outline manager: the line parser (ParseOrgFile),     *)
(* the serializer (Save / writeItem), the item operations of org.go and    *)
(* the key handlers of ui.go.                                              *)
(*                                                                         *)
(* A line of text is a sequence of tokens (strings).  A token stands for a *)
(* run of characters that the program's regular expressions and string     *)
(* functions never split: "*", one blank, a word, a marker such as         *)
(* "SCHEDULED:", a bracket, a calendar day, a weekday name, a clock time.  *)
(* A text is a sequence of lines.  An optional value (a Go pointer that    *)
(* may be nil, a regexp match that may be nil) is a sequence of length 0   *)
(* or 1.                                                                   *)
(***************************************************************************)
EXTENDS Integers, Sequences, FiniteSets, TLC

VARIABLES
    disk,             \* what the file system does with the file (see Disks)
    file,             \* the lines of the file on disk
    run,              \* how many times main has been started
    pc,               \* where main is: "open", "scan", "ui", "exit", or
                      \* one of its os.Exit(1): "parseError", "saveError"
    text,             \* the lines the scanner of this run reads
    pos,              \* index of the next line scanner.Scan() returns
    items,            \* the heap of Items: items[id] is the Item with handle id
    roots,            \* orgFile.Items: handles of the root items
    currentItem,      \* ParseOrgFile's currentItem (0 is nil)
    itemStack,        \* ParseOrgFile's itemStack
    inCodeBlock,      \* ParseOrgFile's inCodeBlock
    inLogbookDrawer,  \* ParseOrgFile's inLogbookDrawer
    cursor,           \* model.cursor
    mode,             \* model.mode
    statusMsg,        \* model.statusMsg
    editingItem,      \* model.editingItem (0 is nil)
    itemToDelete,     \* model.itemToDelete (0 is nil)
    reorderMode,      \* model.reorderMode
    ops               \* key events the UI has handled in this run

parseVars == <<text, pos, currentItem, itemStack, inCodeBlock, inLogbookDrawer>>
docVars   == <<items, roots>>
uiVars    == <<cursor, mode, statusMsg, editingItem, itemToDelete, reorderMode>>
vars      == <<disk, file, run, pc, parseVars, docVars, uiVars, ops>>

---------------------------------------------------------------------------
(* Bounds of the model.                                                    *)

\* Longest input text, in lines, of the round-trip specification.
MaxLines == 3
\* Most key events handled in one run of the UI.
MaxOps == 5
\* Most items the heap holds (capture and add-sub-task stop there).
MaxItems == 4
\* Most clock entries of one item (clock-in stops there).
MaxClock == 3

---------------------------------------------------------------------------
(* Tokens and small helpers.                                               *)

\* The characters \s and strings.TrimSpace treat as white space.
WS == {" ", "\t"}

StateTODO  == "TODO"
StatePROG  == "PROG"
StateBLOCK == "BLOCK"
StateDONE  == "DONE"
StateNone  == ""

\* The alternatives (TODO|PROG|BLOCK|DONE) of headingPattern.
StateTokens == {StateTODO, StatePROG, StateBLOCK, StateDONE}

Min(S) == CHOOSE m \in S : \A k \in S : m <= k

\* Length of the longest run of tokens of S that starts at index from.
RunLen(line, from, S) ==
    Min({k \in from..(Len(line) + 1) : k = Len(line) + 1 \/ line[k] \notin S}) - from

\* strings.Repeat(tok, n), as a token sequence.
Repeat(tok, n) == [i \in 1..n |-> tok]

\* strings.Contains(line, marker) for a marker that is one token.
Contains(line, marker) == \E i \in 1..Len(line) : line[i] = marker

\* strings.TrimSpace(line).
TrimSpace(line) ==
    LET lead == RunLen(line, 1, WS)
        last == {k \in 1..Len(line) : line[k] \notin WS}
    IN  IF last = {} THEN <<>>
        ELSE SubSeq(line, lead + 1, CHOOSE k \in last : \A j \in last : j <= k)

\* strings.HasPrefix(line, marker) for a marker that is one token.
HasPrefix(line, marker) == Len(line) >= 1 /\ line[1] = marker

---------------------------------------------------------------------------
(* Calendar values.  A time.Time is [day, hm, ss].                         *)

Days == {"2024-01-15", "2024-01-16", "2024-01-25"}
DayNames == {"Mon", "Tue", "Thu"}
Clocks == {"10:00", "11:00"}
Seconds == {":30"}

\* The weekday time.Format prints for a day.
Weekday(day) ==
    IF day = "2024-01-15" THEN "Mon" ELSE IF day = "2024-01-16" THEN "Tue" ELSE "Thu"

MkTime(day, hm, ss) == [day |-> day, hm |-> hm, ss |-> ss]

IsDayDowClock(s) ==
    /\ Len(s) = 5
    /\ s[1] \in Days /\ s[2] = " " /\ s[3] \in DayNames /\ s[4] = " "
    /\ s[5] \in Clocks

\* parseOrgDate: the layouts are tried in order; the weekday name is read
\* and not compared with the day.  <<>> is the error.
parseOrgDate(s) ==
    IF IsDayDowClock(s) THEN <<MkTime(s[1], s[5], ":00")>>
    ELSE IF Len(s) = 3 /\ s[1] \in Days /\ s[2] = " " /\ s[3] \in DayNames
         THEN <<MkTime(s[1], "00:00", ":00")>>
    ELSE IF Len(s) = 1 /\ s[1] \in Days
         THEN <<MkTime(s[1], "00:00", ":00")>>
    ELSE <<>>

\* parseClockTimestamp: weekday and clock time, with or without seconds.
parseClockTimestamp(s) ==
    IF IsDayDowClock(s) THEN <<MkTime(s[1], s[5], ":00")>>
    ELSE IF Len(s) = 6 /\ IsDayDowClock(SubSeq(s, 1, 5)) /\ s[6] \in Seconds
         THEN <<MkTime(s[1], s[5], s[6])>>
    ELSE <<>>

\* formatClockTimestamp: "2006-01-02 Mon 15:04".
formatClockTimestamp(t) == <<t.day, " ", Weekday(t.day), " ", t.hm>>

\* formatOrgDate: "2006-01-02 Mon".
formatOrgDate(t) == <<t.day, " ", Weekday(t.day)>>

---------------------------------------------------------------------------
(* The parser patterns of org.go.  A match is <<m>>, no match is <<>>.     *)

\* open ([^close]+) close, with the open token at index p: the captured
\* tokens and the index after the close token.
Bracket(line, p, open, close) ==
    IF p > Len(line) \/ line[p] # open THEN <<>>
    ELSE LET q == p + 1 + RunLen(line, p + 1, {line[k] : k \in 1..Len(line)} \ {close})
         IN  IF q > Len(line) \/ q = p + 1 THEN <<>>
             ELSE <<[cap |-> SubSeq(line, p + 1, q - 1), next |-> q + 1]>>

\* marker \s* open ([^close]+) close, anywhere in the line: the leftmost
\* match.
Directive(line, marker, open, close) ==
    LET at(i) == Bracket(line, i + 1 + RunLen(line, i + 1, WS), open, close)
        hits  == {i \in 1..Len(line) : line[i] = marker /\ at(i) # <<>>}
    IN  IF hits = {} THEN <<>> ELSE at(Min(hits))

\* headingPattern without the state group: ^(\*+)\s+(.+)$
headingPattern_NoStateGroup(line) ==
    LET n == RunLen(line, 1, {"*"})
        k == RunLen(line, n + 1, WS)
    IN  IF n = 0 \/ k = 0 THEN <<>>
        ELSE IF n + k + 1 > Len(line)
             THEN IF k >= 2
                  THEN <<[level |-> n, state |-> StateNone, title |-> <<line[Len(line)]>>]>>
                  ELSE <<>>
        ELSE <<[level |-> n, state |-> StateNone,
                title |-> SubSeq(line, n + k + 1, Len(line))]>>

\* ^(\*+)\s+(?:(TODO|PROG|BLOCK|DONE)\s+)?(.+)$
headingPattern(line) ==
    LET n == RunLen(line, 1, {"*"})
        k == RunLen(line, n + 1, WS)
        p == n + k + 1
        j == RunLen(line, p + 1, WS)
        q == p + 1 + j
        last == <<line[Len(line)]>>
    IN  IF n = 0 \/ k = 0 THEN <<>>
        ELSE IF p > Len(line)
             THEN \* only white space follows the stars: \s+ gives its last
                  \* character back to (.+)
                  IF k >= 2 THEN <<[level |-> n, state |-> StateNone, title |-> last]>>
                  ELSE <<>>
        ELSE IF line[p] \in StateTokens /\ j >= 1 /\ q <= Len(line)
             THEN <<[level |-> n, state |-> line[p],
                     title |-> SubSeq(line, q, Len(line))]>>
        ELSE IF line[p] \in StateTokens /\ j >= 2
             THEN <<[level |-> n, state |-> line[p], title |-> last]>>
        ELSE <<[level |-> n, state |-> StateNone,
                title |-> SubSeq(line, p, Len(line))]>>

\* SCHEDULED:\s*<([^>]+)>
scheduledPattern(line) ==
    LET m == Directive(line, "SCHEDULED:", "<", ">")
    IN  IF m = <<>> THEN <<>> ELSE <<m[1].cap>>

\* DEADLINE:\s*<([^>]+)>
deadlinePattern(line) ==
    LET m == Directive(line, "DEADLINE:", "<", ">")
    IN  IF m = <<>> THEN <<>> ELSE <<m[1].cap>>

\* CLOCK:\s*\[([^\]]+)\](?:--\[([^\]]+)\])?   The second group is <<>> when
\* it did not take part in the match (the empty string of matches[2]).
clockPattern(line) ==
    LET m == Directive(line, "CLOCK:", "[", "]")
        e == IF m[1].next <= Len(line) /\ line[m[1].next] = "--"
             THEN Bracket(line, m[1].next + 1, "[", "]")
             ELSE <<>>
    IN  IF m = <<>> THEN <<>>
        ELSE <<[start |-> m[1].cap, end |-> IF e = <<>> THEN <<>> ELSE e[1].cap]>>

\* ^\s*:LOGBOOK:\s*$
drawerStart(line) == TrimSpace(line) = <<":LOGBOOK:">>

\* ^\s*:END:\s*$
drawerEnd(line) == TrimSpace(line) = <<":END:">>

\* ^\s*#\+BEGIN_SRC
codeBlockStart(line) == HasPrefix(TrimSpace(line), "#+BEGIN_SRC")

\* ^\s*#\+END_SRC
codeBlockEnd(line) == HasPrefix(TrimSpace(line), "#+END_SRC")

---------------------------------------------------------------------------
(* Items and the parser's loop body.                                       *)

\* &Item{Level, State, Title, Notes: []string{}, Children: []*Item{}}
NewItem(level, state, title) ==
    [Level |-> level, State |-> state, Title |-> title,
     Scheduled |-> <<>>, Deadline |-> <<>>, Notes |-> <<>>,
     Children |-> <<>>, Folded |-> FALSE, ClockEntries |-> <<>>]

\* ClockEntry{Start, End}; End is <<>> while the entry is open.
ClockEntry(start, end) == [Start |-> start, End |-> end]

\* if currentItem != nil { currentItem.Notes = append(currentItem.Notes, line) }
AppendNote(its, id, line) ==
    IF id = 0 THEN its ELSE [its EXCEPT ![id].Notes = Append(@, line)]

\* PopStack popping only the items of a greater level.
PopStack_Greater(its, stack, level) ==
    LET keep == {k \in 1..Len(stack) : its[stack[k]].Level <= level}
    IN  IF keep = {} THEN <<>>
        ELSE SubSeq(stack, 1, CHOOSE k \in keep : \A j \in keep : j <= k)

\* for len(itemStack) > 0 && itemStack[len(itemStack)-1].Level >= level { pop }
PopStack(its, stack, level) ==
    LET keep == {k \in 1..Len(stack) : its[stack[k]].Level < level}
    IN  IF keep = {} THEN <<>>
        ELSE SubSeq(stack, 1, CHOOSE k \in keep : \A j \in keep : j <= k)

\* The heading branch of the loop: a new item is linked under the parent
\* the stack gives, pushed, and made the current item.
ParseHeading(ps, m) ==
    LET id    == Len(ps.items) + 1
        stack == PopStack(ps.items, ps.itemStack, m.level)
        added == Append(ps.items, NewItem(m.level, m.state, m.title))
    IN  [ps EXCEPT
            !.items = IF stack = <<>> THEN added
                      ELSE [added EXCEPT ![stack[Len(stack)]].Children = Append(@, id)],
            !.roots = IF stack = <<>> THEN Append(@, id) ELSE @,
            !.itemStack = Append(stack, id),
            !.currentItem = id]

\* The CLOCK branch: the entry a content line adds, if any.
ParseClock(line) ==
    LET m == clockPattern(line)
        s == parseClockTimestamp(m[1].start)
        e == IF m[1].end = <<>> THEN <<>> ELSE parseClockTimestamp(m[1].end)
    IN  IF m = <<>> \/ s = <<>> THEN <<>> ELSE <<ClockEntry(s[1], e)>>

\* ParseContent keeping in the notes only the lines that set no field.
ParseContent_FieldOrNote(it, line) ==
    LET sm == scheduledPattern(line)
        dm == deadlinePattern(line)
        st == IF sm = <<>> THEN <<>> ELSE parseOrgDate(sm[1])
        dt == IF dm = <<>> THEN <<>> ELSE parseOrgDate(dm[1])
    IN  [it EXCEPT
            !.Scheduled = IF st = <<>> THEN @ ELSE st,
            !.Deadline = IF dt = <<>> THEN @ ELSE dt,
            !.ClockEntries = @ \o ParseClock(line),
            !.Notes = IF st = <<>> /\ dt = <<>> /\ ParseClock(line) = <<>>
                         /\ (TrimSpace(line) # <<>> \/ Len(@) > 0)
                      THEN Append(@, line) ELSE @]

\* The content branch of the loop, for the current item it.
ParseContent(it, line) ==
    LET sm == scheduledPattern(line)
        dm == deadlinePattern(line)
        st == IF sm = <<>> THEN <<>> ELSE parseOrgDate(sm[1])
        dt == IF dm = <<>> THEN <<>> ELSE parseOrgDate(dm[1])
    IN  [it EXCEPT
            !.Scheduled = IF st = <<>> THEN @ ELSE st,
            !.Deadline = IF dt = <<>> THEN @ ELSE dt,
            !.ClockEntries = @ \o ParseClock(line),
            !.Notes = IF TrimSpace(line) # <<>> \/ Len(@) > 0
                      THEN Append(@, line) ELSE @]

\* ParseLine trying the heading pattern before the code-block flag.
ParseLine_HeadingFirst(ps, line) ==
    IF drawerStart(line)
    THEN [ps EXCEPT !.inLogbookDrawer = TRUE,
                    !.items = AppendNote(@, ps.currentItem, line)]
    ELSE IF drawerEnd(line) /\ ps.inLogbookDrawer
    THEN [ps EXCEPT !.inLogbookDrawer = FALSE,
                    !.items = AppendNote(@, ps.currentItem, line)]
    ELSE IF codeBlockStart(line)
    THEN [ps EXCEPT !.inCodeBlock = TRUE,
                    !.items = AppendNote(@, ps.currentItem, line)]
    ELSE IF codeBlockEnd(line)
    THEN [ps EXCEPT !.inCodeBlock = FALSE,
                    !.items = AppendNote(@, ps.currentItem, line)]
    ELSE IF headingPattern(line) # <<>>
    THEN ParseHeading(ps, headingPattern(line)[1])
    ELSE IF ps.inCodeBlock
    THEN [ps EXCEPT !.items = AppendNote(@, ps.currentItem, line)]
    ELSE IF ps.currentItem # 0
    THEN [ps EXCEPT !.items[ps.currentItem] = ParseContent(@, line)]
    ELSE ps

\* One iteration of the scanner loop of ParseOrgFile on the parser state
\* ps = [items, roots, currentItem, itemStack, inCodeBlock, inLogbookDrawer].
ParseLine(ps, line) ==
    IF drawerStart(line)
    THEN [ps EXCEPT !.inLogbookDrawer = TRUE,
                    !.items = AppendNote(@, ps.currentItem, line)]
    ELSE IF drawerEnd(line) /\ ps.inLogbookDrawer
    THEN [ps EXCEPT !.inLogbookDrawer = FALSE,
                    !.items = AppendNote(@, ps.currentItem, line)]
    ELSE IF codeBlockStart(line)
    THEN [ps EXCEPT !.inCodeBlock = TRUE,
                    !.items = AppendNote(@, ps.currentItem, line)]
    ELSE IF codeBlockEnd(line)
    THEN [ps EXCEPT !.inCodeBlock = FALSE,
                    !.items = AppendNote(@, ps.currentItem, line)]
    ELSE IF ps.inCodeBlock
    THEN [ps EXCEPT !.items = AppendNote(@, ps.currentItem, line)]
    ELSE IF headingPattern(line) # <<>>
    THEN ParseHeading(ps, headingPattern(line)[1])
    ELSE IF ps.currentItem # 0
    THEN [ps EXCEPT !.items[ps.currentItem] = ParseContent(@, line)]
    ELSE ps

\* The parser state before the first line.
ParseStart ==
    [items |-> <<>>, roots |-> <<>>, currentItem |-> 0, itemStack |-> <<>>,
     inCodeBlock |-> FALSE, inLogbookDrawer |-> FALSE]

\* ParseOrgFile on a whole text: the loop run over the first n lines.
RECURSIVE ParseLines(_, _)
ParseLines(lines, n) ==
    IF n = 0 THEN ParseStart ELSE ParseLine(ParseLines(lines, n - 1), lines[n])

ParseOrgFile(lines) == ParseLines(lines, Len(lines))

---------------------------------------------------------------------------
(* The serializer.                                                         *)

\* The heading line writeItem writes.
HeadingLine(it) ==
    Repeat("*", it.Level)
      \o (IF it.State # StateNone THEN <<" ", it.State>> ELSE <<>>)
      \o <<" ">> \o it.Title

hasScheduled(it) == \E i \in 1..Len(it.Notes) : Contains(it.Notes[i], "SCHEDULED:")
hasDeadline(it)  == \E i \in 1..Len(it.Notes) : Contains(it.Notes[i], "DEADLINE:")
\* hasLogbook looking for the marker without its colons.
hasLogbook_WrongMarker(it) == \E i \in 1..Len(it.Notes) : Contains(it.Notes[i], "LOGBOOK")

hasLogbook(it)   == \E i \in 1..Len(it.Notes) : Contains(it.Notes[i], ":LOGBOOK:")

\* fmt.Sprintf("SCHEDULED: <%s>\n", formatOrgDate(*item.Scheduled))
ScheduledLine(t) == <<"SCHEDULED:", " ", "<">> \o formatOrgDate(t) \o <<">">>

\* fmt.Sprintf("DEADLINE: <%s>\n", formatOrgDate(*item.Deadline))
DeadlineLine(t) == <<"DEADLINE:", " ", "<">> \o formatOrgDate(t) \o <<">">>

\* The CLOCK line of one entry.
ClockLine(e) ==
    <<"CLOCK:", " ", "[">> \o formatClockTimestamp(e.Start) \o <<"]">>
      \o (IF e.End # <<>>
          THEN <<"--", "[">> \o formatClockTimestamp(e.End[1]) \o <<"]">>
          ELSE <<>>)

\* The lines writeItem synthesizes between the heading and the notes.
SynthScheduled(it) ==
    IF it.Scheduled # <<>> /\ ~hasScheduled(it) THEN <<ScheduledLine(it.Scheduled[1])>>
    ELSE <<>>

SynthDeadline(it) ==
    IF it.Deadline # <<>> /\ ~hasDeadline(it) THEN <<DeadlineLine(it.Deadline[1])>>
    ELSE <<>>

SynthLogbook(it) ==
    IF Len(it.ClockEntries) > 0 /\ ~hasLogbook(it)
    THEN <<<<":LOGBOOK:">>>>
           \o [i \in 1..Len(it.ClockEntries) |-> ClockLine(it.ClockEntries[i])]
           \o <<<<":END:">>>>
    ELSE <<>>

\* writeItem: the lines written for the item id and its subtree.
RECURSIVE writeItem(_, _)
RECURSIVE writeItems(_, _, _)
writeItem(its, id) ==
    <<HeadingLine(its[id])>>
      \o SynthScheduled(its[id]) \o SynthDeadline(its[id]) \o SynthLogbook(its[id])
      \o its[id].Notes
      \o writeItems(its, its[id].Children, 1)

\* The loop "for _, item := range list { writeItem(writer, item) }" from
\* index i on.
writeItems(its, list, i) ==
    IF i > Len(list) THEN <<>>
    ELSE writeItem(its, list[i]) \o writeItems(its, list, i + 1)

\* Save writing the items the list view shows: the children of a folded
\* item are left out.
RECURSIVE writeShown(_, _, _)
writeShown(its, list, i) ==
    IF i > Len(list) THEN <<>>
    ELSE <<HeadingLine(its[list[i]])>>
           \o SynthScheduled(its[list[i]]) \o SynthDeadline(its[list[i]])
           \o SynthLogbook(its[list[i]]) \o its[list[i]].Notes
           \o (IF its[list[i]].Folded THEN <<>>
               ELSE writeShown(its, its[list[i]].Children, 1))
           \o writeShown(its, list, i + 1)

Save_ShownOnly(its, rts) == writeShown(its, rts, 1)

\* Save: the text written to the file.
Save(its, rts) == writeItems(its, rts, 1)

\* What the file system does with the file of the program:
\*   "ok"         every call succeeds
\*   "missing"    there is no file: os.Open reports ErrNotExist
\*   "denied"     os.Open fails with another error
\*   "readFail"   the file opens and a read of it fails
\*   "readOnly"   the file opens and os.Create fails
\*   "writeFail"  the file is created and a write to it fails
Disks == {"ok", "missing", "denied", "readFail", "readOnly", "writeFail"}

\* The outcomes of Save on the disk d that holds the lines old: the lines
\* the file holds afterwards and whether Save returns an error.  os.Create
\* empties the file.  The lines go to a bufio.Writer; the writer hands a
\* full buffer to the file inside a WriteString of writeItem, whose error
\* is returned, and the rest in the deferred Flush, whose error is dropped.
\* Which of the two calls meets the failing write depends on the lengths of
\* the lines, which a line of tokens leaves open.
SaveOutcomes(its, rts, d, old) ==
    LET out == Save(its, rts)
    IN  IF d = "readOnly" THEN {[file |-> old, err |-> TRUE]}
        ELSE IF d = "writeFail" /\ out # <<>>
        THEN {[file |-> SubSeq(out, 1, k), err |-> inLoop] :
                 k \in 0..(Len(out) - 1), inLoop \in BOOLEAN}
        ELSE {[file |-> out, err |-> FALSE]}

---------------------------------------------------------------------------
(* Input lines and texts.                                                  *)

HeadA       == <<"*", " ", "A">>
HeadTodoB   == <<"*", "*", " ", "TODO", " ", "B">>
HeadC       == <<"*", "*", "*", " ", "C">>
HeadWide    == <<"*", " ", " ", "A">>
PlainLine   == <<"x">>
BlankLine   == <<>>
SchedLine   == <<"SCHEDULED:", " ", "<", "2024-01-15", " ", "Mon", ">">>
DeadLine    == <<"DEADLINE:", " ", "<", "2024-01-16", " ", "Tue", " ", "10:00", ">">>
BadDeadLine == <<"DEADLINE:", " ", "<", "soon", ">">>
PlanLine    == SchedLine \o <<" ">> \o DeadLine
OpenClock   == <<"CLOCK:", " ", "[", "2024-01-15", " ", "Mon", " ", "10:00", "]">>
ClosedClock == OpenClock \o <<"--", "[", "2024-01-15", " ", "Mon", " ", "11:00", "]">>
LogbookLine == <<":LOGBOOK:">>
EndLine     == <<":END:">>
BeginSrc    == <<"#+BEGIN_SRC">>
EndSrc      == <<"#+END_SRC">>

\* The lines the texts of the round-trip specification are made of.
InputLines ==
    {HeadA, HeadTodoB, HeadC, HeadWide, PlainLine, BlankLine, SchedLine,
     BadDeadLine, OpenClock, ClosedClock, LogbookLine, EndLine, BeginSrc, EndSrc}

Texts == UNION {[1..n -> InputLines] : n \in 0..MaxLines}

---------------------------------------------------------------------------
(* main: parse the file, run the UI, save on exit.                         *)

modeList          == "modeList"
modeAgenda        == "modeAgenda"
modeEdit          == "modeEdit"
modeConfirmDelete == "modeConfirmDelete"
modeCapture       == "modeCapture"
modeAddSubTask    == "modeAddSubTask"
modeSetDeadline   == "modeSetDeadline"

\* The parser state held in the variables.
PS ==
    [items |-> items, roots |-> roots, currentItem |-> currentItem,
     itemStack |-> itemStack, inCodeBlock |-> inCodeBlock,
     inLogbookDrawer |-> inLogbookDrawer]

\* The state when main calls ParseOrgFile on a file holding the text t.
Start(t) ==
    /\ disk = "ok"
    /\ file = t /\ text = t /\ pos = 1 /\ run = 1 /\ pc = "scan"
    /\ items = <<>> /\ roots = <<>> /\ currentItem = 0 /\ itemStack = <<>>
    /\ inCodeBlock = FALSE /\ inLogbookDrawer = FALSE
    /\ cursor = 0 /\ mode = modeList /\ statusMsg = ""
    /\ editingItem = 0 /\ itemToDelete = 0 /\ reorderMode = FALSE
    /\ ops = 0

\* One iteration of "for scanner.Scan()".
ScanLine ==
    /\ pc = "scan" /\ pos <= Len(text)
    /\ LET ps == ParseLine(PS, text[pos])
       IN  /\ items' = ps.items
           /\ roots' = ps.roots
           /\ currentItem' = ps.currentItem
           /\ itemStack' = ps.itemStack
           /\ inCodeBlock' = ps.inCodeBlock
           /\ inLogbookDrawer' = ps.inLogbookDrawer
    /\ pos' = pos + 1
    /\ UNCHANGED <<disk, file, run, pc, text, uiVars, ops>>

\* The scanner is at end of file: ParseOrgFile returns the document and
\* main starts the UI on initialModel(orgFile).
ScanEnd ==
    /\ pc = "scan" /\ pos > Len(text)
    /\ disk # "readFail"
    /\ pc' = "ui"
    /\ cursor' = 0 /\ mode' = modeList /\ statusMsg' = ""
    /\ editingItem' = 0 /\ itemToDelete' = 0 /\ reorderMode' = FALSE
    /\ ops' = 0
    /\ UNCHANGED <<disk, file, run, parseVars, docVars>>

\* The Quit key ends the UI and main saves the document.
Quit ==
    /\ pc = "ui" /\ mode \in {modeList, modeAgenda}
    /\ \E r \in SaveOutcomes(items, roots, disk, file) :
          /\ file' = r.file
          /\ pc' = IF r.err THEN "saveError" ELSE "exit"
    /\ disk' = IF disk = "missing" THEN "ok" ELSE disk
    /\ UNCHANGED <<run, parseVars, docVars, uiVars, ops>>

\* The program is started again on the file it saved.
MaxRuns == 2

Rerun ==
    /\ pc = "exit" /\ run < MaxRuns
    /\ run' = run + 1 /\ pc' = "scan"
    /\ text' = file /\ pos' = 1
    /\ items' = <<>> /\ roots' = <<>> /\ currentItem' = 0 /\ itemStack' = <<>>
    /\ inCodeBlock' = FALSE /\ inLogbookDrawer' = FALSE
    /\ UNCHANGED <<disk, file, uiVars, ops>>

\* The round trips of main with no key pressed but Quit.
InitRT == \E t \in Texts : Start(t)
NextRT == ScanLine \/ ScanEnd \/ Quit \/ Rerun
SpecRT == InitRT /\ [][NextRT]_vars

---------------------------------------------------------------------------
(* The item operations of org.go.                                          *)

\* GetAllItems: the items in display order; a folded item hides its
\* children.  flatten(list) from index i on.
RECURSIVE flatten(_, _, _)
flatten(its, list, i) ==
    IF i > Len(list) THEN <<>>
    ELSE <<list[i]>>
           \o (IF ~its[list[i]].Folded THEN flatten(its, its[list[i]].Children, 1)
               ELSE <<>>)
           \o flatten(its, list, i + 1)

\* GetAllItems descending into folded items too.
GetAllItems_IgnoreFold(its, rts) ==
    flatten([id \in 1..Len(its) |-> [its[id] EXCEPT !.Folded = FALSE]], rts, 1)

GetAllItems(its, rts) == flatten(its, rts, 1)

\* CycleState stopping at DONE.
CycleState_NoWrap(st) ==
    CASE st = StateNone  -> StateTODO
      [] st = StateTODO  -> StatePROG
      [] st = StatePROG  -> StateBLOCK
      [] st = StateBLOCK -> StateDONE
      [] st = StateDONE  -> StateDONE

\* CycleState
CycleState(st) ==
    CASE st = StateNone  -> StateTODO
      [] st = StateTODO  -> StatePROG
      [] st = StatePROG  -> StateBLOCK
      [] st = StateBLOCK -> StateDONE
      [] st = StateDONE  -> StateNone

\* IsClockedIn
IsClockedIn(it) == \E i \in 1..Len(it.ClockEntries) : it.ClockEntries[i].End = <<>>

\* ClockIn without the check for an open entry.
ClockIn_NoCheck(it, now) ==
    [item |-> [it EXCEPT !.ClockEntries = Append(@, ClockEntry(now, <<>>))], ok |-> TRUE]

\* ClockIn at the time now: the item afterwards and the value returned.
ClockIn(it, now) ==
    IF IsClockedIn(it) THEN [item |-> it, ok |-> FALSE]
    ELSE [item |-> [it EXCEPT !.ClockEntries = Append(@, ClockEntry(now, <<>>))],
          ok |-> TRUE]

\* ClockOut scanning the entries from the oldest on.
ClockOut_Oldest(it, now) ==
    LET open  == {i \in 1..Len(it.ClockEntries) : it.ClockEntries[i].End = <<>>}
        first == CHOOSE i \in open : \A j \in open : i <= j
    IN  IF open = {} THEN [item |-> it, ok |-> FALSE]
        ELSE [item |-> [it EXCEPT !.ClockEntries[first].End = <<now>>], ok |-> TRUE]

\* ClockOut at the time now: the item afterwards and the value returned.
ClockOut(it, now) ==
    LET open == {i \in 1..Len(it.ClockEntries) : it.ClockEntries[i].End = <<>>}
        last == CHOOSE i \in open : \A j \in open : j <= i
    IN  IF open = {} THEN [item |-> it, ok |-> FALSE]
        ELSE [item |-> [it EXCEPT !.ClockEntries[last].End = <<now>>], ok |-> TRUE]

---------------------------------------------------------------------------
(* The helpers of ui.go.                                                   *)

\* The day the UI runs on, and what time.Now() may return on it.
Today == "2024-01-15"
Nows == {MkTime(Today, "10:00", ":00"), MkTime(Today, "11:00", ":30")}

\* The days of the model, counted from the first.
DayNum(day) ==
    IF day = "2024-01-15" THEN 0 ELSE IF day = "2024-01-16" THEN 1 ELSE 10

\* t.Before(endOfWeek), endOfWeek being seven days after the start of today.
BeforeEndOfWeek(t) == DayNum(t.day) < DayNum(Today) + 7

\* getAgendaItems: every item, folded or not, once for a scheduled date and
\* once for a deadline that fall before the end of the week.
RECURSIVE agendaOf(_, _, _)
agendaOf(its, list, i) ==
    IF i > Len(list) THEN <<>>
    ELSE LET it == its[list[i]]
         IN  (IF it.Scheduled # <<>> /\ BeforeEndOfWeek(it.Scheduled[1])
              THEN <<list[i]>> ELSE <<>>)
               \o (IF it.Deadline # <<>> /\ BeforeEndOfWeek(it.Deadline[1])
                   THEN <<list[i]>> ELSE <<>>)
               \o agendaOf(its, it.Children, 1)
               \o agendaOf(its, list, i + 1)

getAgendaItems(its, rts) == agendaOf(its, rts, 1)

\* getVisibleItems
getVisibleItems(its, rts, md) ==
    IF md = modeAgenda THEN getAgendaItems(its, rts) ELSE GetAllItems(its, rts)

\* cycleStateBackward going from no state to BLOCK.
cycleStateBackward_SkipDone(st) ==
    CASE st = StateNone  -> StateBLOCK
      [] st = StateTODO  -> StateNone
      [] st = StatePROG  -> StateTODO
      [] st = StateBLOCK -> StatePROG
      [] st = StateDONE  -> StateBLOCK

\* cycleStateBackward
cycleStateBackward(st) ==
    CASE st = StateNone  -> StateDONE
      [] st = StateTODO  -> StateNone
      [] st = StatePROG  -> StateTODO
      [] st = StateBLOCK -> StatePROG
      [] st = StateDONE  -> StateBLOCK

\* removeFromList of deleteItem, from index i on: the list without the
\* target, and the heap with the children lists it rewrote.
RECURSIVE removeFromList(_, _, _, _)
removeFromList(its, list, i, target) ==
    IF i > Len(list) THEN [list |-> <<>>, its |-> its]
    ELSE IF list[i] = target THEN removeFromList(its, list, i + 1, target)
    ELSE LET sub  == removeFromList(its, its[list[i]].Children, 1, target)
             its1 == [sub.its EXCEPT ![list[i]].Children = sub.list]
             rest == removeFromList(its1, list, i + 1, target)
         IN  [list |-> <<list[i]>> \o rest.list, its |-> rest.its]

\* deleteItem looking for the target in the root list only.
deleteItem_RootsOnly(its, rts, target) ==
    [items |-> its, roots |-> SelectSeq(rts, LAMBDA e : e # target)]

\* deleteItem: the heap and the root list afterwards.
deleteItem(its, rts, target) ==
    LET r == removeFromList(its, rts, 1, target)
    IN  [items |-> r.its, roots |-> r.list]

\* The list with the elements at i and i + 1 exchanged.
SwapAt(list, i) ==
    [k \in 1..Len(list) |->
        IF k = i THEN list[i + 1] ELSE IF k = i + 1 THEN list[i] ELSE list[k]]

\* swapInList of swapItems, from index i on: whether a pair was swapped,
\* the list, and the heap with the children list a swap below rewrote.
RECURSIVE swapInList(_, _, _, _, _)
swapInList(its, list, i, item1, item2) ==
    IF i < Len(list)
    THEN IF \/ (list[i] = item1 /\ list[i + 1] = item2)
            \/ (list[i] = item2 /\ list[i + 1] = item1)
         THEN [ok |-> TRUE, list |-> SwapAt(list, i), its |-> its]
         ELSE LET sub == swapInList(its, its[list[i]].Children, 1, item1, item2)
              IN  IF sub.ok
                  THEN [ok |-> TRUE, list |-> list,
                        its |-> [sub.its EXCEPT ![list[i]].Children = sub.list]]
                  ELSE swapInList(its, list, i + 1, item1, item2)
    ELSE IF Len(list) > 0
    THEN LET n   == Len(list)
             sub == swapInList(its, its[list[n]].Children, 1, item1, item2)
         IN  IF sub.ok
             THEN [ok |-> TRUE, list |-> list,
                   its |-> [sub.its EXCEPT ![list[n]].Children = sub.list]]
             ELSE [ok |-> FALSE, list |-> list, its |-> its]
    ELSE [ok |-> FALSE, list |-> list, its |-> its]

\* swapItems looking for the pair in the root list only.
swapItems_RootsOnly(its, rts, item1, item2) ==
    LET at == {i \in 1..(Len(rts) - 1) : {rts[i], rts[i + 1]} = {item1, item2}}
    IN  [items |-> its,
         roots |-> IF at = {} THEN rts ELSE SwapAt(rts, CHOOSE i \in at : TRUE)]

\* swapItems: the heap and the root list afterwards.
swapItems(its, rts, item1, item2) ==
    LET r == swapInList(its, rts, 1, item1, item2)
    IN  [items |-> r.its, roots |-> r.list]

---------------------------------------------------------------------------
(* model.Update: one action for each key it handles.                       *)

\* items := m.getVisibleItems()
Visible == getVisibleItems(items, roots, mode)

\* len(items) > 0 && m.cursor < len(items)
HasSel == Len(Visible) > 0 /\ cursor < Len(Visible)

\* items[m.cursor]
Sel == Visible[cursor + 1]

\* A key message reaches the main switch of Update.
MainKey ==
    /\ pc = "ui" /\ mode \in {modeList, modeAgenda}
    /\ ops < MaxOps /\ ops' = ops + 1

\* A key message reaches the handler of the dialog md.
DialogKey(md) ==
    /\ pc = "ui" /\ mode = md
    /\ ops < MaxOps /\ ops' = ops + 1

\* moveItemUp.  items[m.cursor] is read without a bounds check: a cursor
\* past the list is an index out of range and the program panics.
moveItemUp ==
    IF Len(Visible) = 0 \/ cursor = 0
    THEN UNCHANGED <<pc, docVars, cursor, statusMsg>>
    ELSE IF cursor >= Len(Visible)
    THEN pc' = "panic" /\ UNCHANGED <<docVars, cursor, statusMsg>>
    ELSE IF items[Sel].Level # items[Visible[cursor]].Level
    THEN /\ statusMsg' = "Cannot move across different levels"
         /\ UNCHANGED <<pc, docVars, cursor>>
    ELSE LET r == swapItems(items, roots, Sel, Visible[cursor])
         IN  /\ items' = r.items /\ roots' = r.roots
             /\ cursor' = cursor - 1
             /\ statusMsg' = "Item moved up"
             /\ UNCHANGED pc

\* moveItemDown
moveItemDown ==
    IF Len(Visible) = 0 \/ cursor >= Len(Visible) - 1
    THEN UNCHANGED <<pc, docVars, cursor, statusMsg>>
    ELSE IF items[Sel].Level # items[Visible[cursor + 2]].Level
    THEN /\ statusMsg' = "Cannot move across different levels"
         /\ UNCHANGED <<pc, docVars, cursor>>
    ELSE LET r == swapItems(items, roots, Sel, Visible[cursor + 2])
         IN  /\ items' = r.items /\ roots' = r.roots
             /\ cursor' = cursor + 1
             /\ statusMsg' = "Item moved down"
             /\ UNCHANGED pc

KeyUp ==
    /\ MainKey
    /\ IF reorderMode THEN moveItemUp
       ELSE /\ cursor' = IF cursor > 0 THEN cursor - 1 ELSE cursor
            /\ UNCHANGED <<pc, docVars, statusMsg>>
    /\ UNCHANGED <<disk, file, run, parseVars, mode, editingItem, itemToDelete, reorderMode>>

KeyDown ==
    /\ MainKey
    /\ IF reorderMode THEN moveItemDown
       ELSE /\ cursor' = IF cursor < Len(Visible) - 1 THEN cursor + 1 ELSE cursor
            /\ UNCHANGED <<pc, docVars, statusMsg>>
    /\ UNCHANGED <<disk, file, run, parseVars, mode, editingItem, itemToDelete, reorderMode>>

KeyShiftUp ==
    /\ MainKey
    /\ moveItemUp
    /\ UNCHANGED <<disk, file, run, parseVars, mode, editingItem, itemToDelete, reorderMode>>

KeyShiftDown ==
    /\ MainKey
    /\ moveItemDown
    /\ UNCHANGED <<disk, file, run, parseVars, mode, editingItem, itemToDelete, reorderMode>>

\* The item after a state change to st: "Auto clock out when changing to DONE".
WithState(it, st, now) ==
    LET it1 == [it EXCEPT !.State = st]
    IN  IF st = StateDONE /\ IsClockedIn(it1) THEN ClockOut(it1, now).item ELSE it1

\* The Left key: cycle the state backward.
KeyLeft ==
    /\ MainKey
    /\ IF HasSel
       THEN \E now \in Nows :
              /\ items' = [items EXCEPT
                             ![Sel] = WithState(@, cycleStateBackward(@.State), now)]
              /\ statusMsg' = "State changed"
       ELSE UNCHANGED <<items, statusMsg>>
    /\ UNCHANGED <<disk, file, run, pc, parseVars, roots, cursor, mode, editingItem,
                   itemToDelete, reorderMode>>

\* The Right key: cycle the state forward.
KeyRight ==
    /\ MainKey
    /\ IF HasSel
       THEN \E now \in Nows :
              /\ items' = [items EXCEPT ![Sel] = WithState(@, CycleState(@.State), now)]
              /\ statusMsg' = "State changed"
       ELSE UNCHANGED <<items, statusMsg>>
    /\ UNCHANGED <<disk, file, run, pc, parseVars, roots, cursor, mode, editingItem,
                   itemToDelete, reorderMode>>

\* The CycleState key (t, space): the same as the Right key.
KeyCycleState ==
    /\ MainKey
    /\ IF HasSel
       THEN \E now \in Nows :
              /\ items' = [items EXCEPT ![Sel] = WithState(@, CycleState(@.State), now)]
              /\ statusMsg' = "State changed"
       ELSE UNCHANGED <<items, statusMsg>>
    /\ UNCHANGED <<disk, file, run, pc, parseVars, roots, cursor, mode, editingItem,
                   itemToDelete, reorderMode>>

\* ToggleFold
KeyToggleFold ==
    /\ MainKey
    /\ IF HasSel
       THEN /\ items' = [items EXCEPT ![Sel].Folded = ~@]
            /\ statusMsg' = IF ~items[Sel].Folded THEN "Folded" ELSE "Unfolded"
       ELSE UNCHANGED <<items, statusMsg>>
    /\ UNCHANGED <<disk, file, run, pc, parseVars, roots, cursor, mode, editingItem,
                   itemToDelete, reorderMode>>

\* EditNotes
KeyEditNotes ==
    /\ MainKey
    /\ IF HasSel
       THEN editingItem' = Sel /\ mode' = modeEdit
       ELSE UNCHANGED <<editingItem, mode>>
    /\ UNCHANGED <<disk, file, run, pc, parseVars, docVars, cursor, statusMsg,
                   itemToDelete, reorderMode>>

\* Capture
KeyCapture ==
    /\ MainKey
    /\ mode' = modeCapture
    /\ UNCHANGED <<disk, file, run, pc, parseVars, docVars, cursor, statusMsg,
                   editingItem, itemToDelete, reorderMode>>

\* AddSubTask
KeyAddSubTask ==
    /\ MainKey
    /\ IF HasSel
       THEN editingItem' = Sel /\ mode' = modeAddSubTask
       ELSE UNCHANGED <<editingItem, mode>>
    /\ UNCHANGED <<disk, file, run, pc, parseVars, docVars, cursor, statusMsg,
                   itemToDelete, reorderMode>>

\* Delete
KeyDelete ==
    /\ MainKey
    /\ IF HasSel
       THEN itemToDelete' = Sel /\ mode' = modeConfirmDelete
       ELSE UNCHANGED <<itemToDelete, mode>>
    /\ UNCHANGED <<disk, file, run, pc, parseVars, docVars, cursor, statusMsg,
                   editingItem, reorderMode>>

\* ToggleView
KeyToggleView ==
    /\ MainKey
    /\ mode' = IF mode = modeList THEN modeAgenda ELSE modeList
    /\ cursor' = 0
    /\ UNCHANGED <<disk, file, run, pc, parseVars, docVars, statusMsg, editingItem,
                   itemToDelete, reorderMode>>

\* Save (ctrl+s)
KeySave ==
    /\ MainKey
    /\ \E r \in SaveOutcomes(items, roots, disk, file) :
          /\ file' = r.file
          /\ statusMsg' = IF r.err THEN "Error saving" ELSE "Saved!"
    /\ disk' = IF disk = "missing" THEN "ok" ELSE disk
    /\ UNCHANGED <<run, pc, parseVars, docVars, cursor, mode, editingItem,
                   itemToDelete, reorderMode>>

\* ToggleReorder
KeyToggleReorder ==
    /\ MainKey
    /\ reorderMode' = ~reorderMode
    /\ statusMsg' = IF ~reorderMode THEN "Reorder mode ON" ELSE "Reorder mode OFF"
    /\ UNCHANGED <<disk, file, run, pc, parseVars, docVars, cursor, mode, editingItem,
                   itemToDelete>>

\* ClockIn
KeyClockIn ==
    /\ MainKey
    /\ IF HasSel
       THEN /\ IsClockedIn(items[Sel]) \/ Len(items[Sel].ClockEntries) < MaxClock
            /\ \E now \in Nows :
                 LET r == ClockIn(items[Sel], now)
                 IN  /\ items' = [items EXCEPT ![Sel] = r.item]
                     /\ statusMsg' = IF r.ok THEN "Clocked in!" ELSE "Already clocked in"
       ELSE UNCHANGED <<items, statusMsg>>
    /\ UNCHANGED <<disk, file, run, pc, parseVars, roots, cursor, mode, editingItem,
                   itemToDelete, reorderMode>>

\* ClockOut
KeyClockOut ==
    /\ MainKey
    /\ IF HasSel
       THEN \E now \in Nows :
              LET r == ClockOut(items[Sel], now)
              IN  /\ items' = [items EXCEPT ![Sel] = r.item]
                  /\ statusMsg' = IF r.ok THEN "Clocked out!" ELSE "Not clocked in"
       ELSE UNCHANGED <<items, statusMsg>>
    /\ UNCHANGED <<disk, file, run, pc, parseVars, roots, cursor, mode, editingItem,
                   itemToDelete, reorderMode>>

\* SetDeadline
KeySetDeadline ==
    /\ MainKey
    /\ IF HasSel
       THEN editingItem' = Sel /\ mode' = modeSetDeadline
       ELSE UNCHANGED <<editingItem, mode>>
    /\ UNCHANGED <<disk, file, run, pc, parseVars, docVars, cursor, statusMsg,
                   itemToDelete, reorderMode>>

---------------------------------------------------------------------------
(* The dialogs.  The text typed into a dialog is chosen when the key that  *)
(* ends the dialog is handled.                                             *)

\* strings.Join(notes, "\n") as the lines of the text area: the empty
\* string is one empty line.
JoinLines(notes) == IF notes = <<>> THEN <<BlankLine>> ELSE notes

\* What the text area may hold when Esc is pressed: the notes as loaded,
\* nothing, or one typed line.
EditValues(notes) == {JoinLines(notes), <<BlankLine>>, <<PlainLine>>}

\* updateEditMode, Esc: "Save notes and exit edit mode".
EditEsc ==
    /\ DialogKey(modeEdit)
    /\ \E v \in EditValues(items[editingItem].Notes) :
         items' = [items EXCEPT
                     ![editingItem].Notes = IF v = <<BlankLine>> THEN <<>> ELSE v]
    /\ mode' = modeList
    /\ statusMsg' = "Notes saved"
    /\ UNCHANGED <<disk, file, run, pc, parseVars, roots, cursor, editingItem,
                   itemToDelete, reorderMode>>

\* updateConfirmDelete, y or Y.
ConfirmYes ==
    /\ DialogKey(modeConfirmDelete)
    /\ LET r   == deleteItem(items, roots, itemToDelete)
           vis == getVisibleItems(r.items, r.roots, modeList)
       IN  /\ items' = r.items /\ roots' = r.roots
           /\ cursor' = IF cursor >= Len(vis) /\ Len(vis) > 0 THEN Len(vis) - 1
                        ELSE cursor
    /\ mode' = modeList
    /\ itemToDelete' = 0
    /\ statusMsg' = "Item deleted"
    /\ UNCHANGED <<disk, file, run, pc, parseVars, editingItem, reorderMode>>

\* updateConfirmDelete, n, N or esc, deleting the item all the same.
ConfirmNo_Deletes ==
    /\ DialogKey(modeConfirmDelete)
    /\ LET r == deleteItem(items, roots, itemToDelete)
       IN  items' = r.items /\ roots' = r.roots
    /\ mode' = modeList
    /\ itemToDelete' = 0
    /\ statusMsg' = "Cancelled"
    /\ UNCHANGED <<disk, file, run, pc, parseVars, cursor, editingItem, reorderMode>>

\* updateConfirmDelete, n, N or esc.
ConfirmNo ==
    /\ DialogKey(modeConfirmDelete)
    /\ mode' = modeList
    /\ itemToDelete' = 0
    /\ statusMsg' = "Cancelled"
    /\ UNCHANGED <<disk, file, run, pc, parseVars, docVars, cursor, editingItem, reorderMode>>

\* What the text input of the capture and add-sub-task dialogs may hold.
TitleInputs == {<<" ">>, <<"T">>, <<"DONE", " ", "T">>}

\* updateCapture, Enter, putting the new item after the existing roots.
CaptureEnter_Append ==
    /\ DialogKey(modeCapture)
    /\ \E v \in TitleInputs :
         LET title == TrimSpace(v)
         IN  IF title # <<>>
             THEN /\ Len(items) < MaxItems
                  /\ items' = Append(items, NewItem(1, StateTODO, title))
                  /\ roots' = Append(roots, Len(items) + 1)
                  /\ statusMsg' = "TODO captured!"
             ELSE UNCHANGED <<items, roots, statusMsg>>
    /\ mode' = modeList
    /\ cursor' = 0
    /\ UNCHANGED <<disk, file, run, pc, parseVars, editingItem, itemToDelete, reorderMode>>

\* updateCapture, Enter.
CaptureEnter ==
    /\ DialogKey(modeCapture)
    /\ \E v \in TitleInputs :
         LET title == TrimSpace(v)
         IN  IF title # <<>>
             THEN /\ Len(items) < MaxItems
                  /\ items' = Append(items, NewItem(1, StateTODO, title))
                  /\ roots' = <<Len(items) + 1>> \o roots
                  /\ statusMsg' = "TODO captured!"
             ELSE UNCHANGED <<items, roots, statusMsg>>
    /\ mode' = modeList
    /\ cursor' = 0
    /\ UNCHANGED <<disk, file, run, pc, parseVars, editingItem, itemToDelete, reorderMode>>

\* updateCapture, Esc.
CaptureEsc ==
    /\ DialogKey(modeCapture)
    /\ mode' = modeList
    /\ statusMsg' = "Cancelled"
    /\ UNCHANGED <<disk, file, run, pc, parseVars, docVars, cursor, editingItem,
                   itemToDelete, reorderMode>>

\* The item updateAddSubTask creates under parent.
NewSubTask_SameLevel(parent, title) == NewItem(parent.Level, StateTODO, title)

NewSubTask(parent, title) == NewItem(parent.Level + 1, StateTODO, title)

\* updateAddSubTask, Enter, leaving the fold of the parent as it is.
AddSubTaskEnter_KeepFold ==
    /\ DialogKey(modeAddSubTask)
    /\ \E v \in TitleInputs :
         LET title == TrimSpace(v)
             id    == Len(items) + 1
         IN  IF title # <<>> /\ editingItem # 0
             THEN /\ Len(items) < MaxItems
                  /\ items' = [Append(items, NewSubTask(items[editingItem], title))
                               EXCEPT ![editingItem].Children = Append(@, id)]
                  /\ statusMsg' = "Sub-task added!"
             ELSE UNCHANGED <<items, statusMsg>>
    /\ mode' = modeList
    /\ editingItem' = 0
    /\ UNCHANGED <<disk, file, run, pc, parseVars, roots, cursor, itemToDelete, reorderMode>>

\* updateAddSubTask, Enter.
AddSubTaskEnter ==
    /\ DialogKey(modeAddSubTask)
    /\ \E v \in TitleInputs :
         LET title == TrimSpace(v)
             id    == Len(items) + 1
         IN  IF title # <<>> /\ editingItem # 0
             THEN /\ Len(items) < MaxItems
                  /\ items' = [Append(items, NewSubTask(items[editingItem], title))
                               EXCEPT ![editingItem].Children = Append(@, id),
                                      ![editingItem].Folded = FALSE]
                  /\ statusMsg' = "Sub-task added!"
             ELSE UNCHANGED <<items, statusMsg>>
    /\ mode' = modeList
    /\ editingItem' = 0
    /\ UNCHANGED <<disk, file, run, pc, parseVars, roots, cursor, itemToDelete, reorderMode>>

\* updateAddSubTask, Esc.
AddSubTaskEsc ==
    /\ DialogKey(modeAddSubTask)
    /\ mode' = modeList
    /\ editingItem' = 0
    /\ statusMsg' = "Cancelled"
    /\ UNCHANGED <<disk, file, run, pc, parseVars, docVars, cursor, itemToDelete, reorderMode>>

\* What the text input of the deadline dialog may hold.
DeadlineInputs ==
    {<<>>, <<"2024/01/16">>, <<"+", "10">>, <<"soon">>, <<"+", "10", "x">>}

\* The day n days after day.
AddDays(day, n) == CHOOSE d \in Days : DayNum(d) = DayNum(day) + n

\* parseDeadlineInput at the time now; <<>> is the error.  After a "+",
\* fmt.Sscanf(daysStr, "%d", &days) reads the number the text starts with
\* and reports no error for what follows the number.
parseDeadlineInput(input, now) ==
    IF HasPrefix(input, "+")
    THEN IF Len(input) >= 2 /\ input[2] = "10"
         THEN <<MkTime(AddDays(now.day, 10), now.hm, now.ss)>>
         ELSE <<>>
    ELSE IF Len(input) = 1 /\ input[1] \in Days
         THEN <<MkTime(input[1], "00:00", ":00")>>
    ELSE IF input = <<"2024/01/16">>
         THEN <<MkTime("2024-01-16", "00:00", ":00")>>
    ELSE <<>>

\* strings.HasPrefix(strings.TrimSpace(note), "DEADLINE:")
IsDeadlineNote(note) == HasPrefix(TrimSpace(note), "DEADLINE:")

\* The notes without the lines that start with DEADLINE:.
FilterDeadline(notes) == SelectSeq(notes, LAMBDA n : ~IsDeadlineNote(n))

\* The notes with the first line that starts with DEADLINE: rewritten to
\* carry the deadline t, and the other lines as they are.
RewriteDeadline(notes, t) ==
    LET hits == {i \in 1..Len(notes) : IsDeadlineNote(notes[i])}
    IN  IF hits = {} THEN FilterDeadline(notes)
        ELSE [notes EXCEPT ![Min(hits)] = DeadlineLine(t)]

\* updateSetDeadline, Enter, with v in the text input at the time now.
SetDeadlineWith(v, now) ==
    /\ DialogKey(modeSetDeadline)
    /\   LET input == TrimSpace(v)
             d     == parseDeadlineInput(input, now)
         IN  IF editingItem = 0 THEN UNCHANGED <<items, statusMsg>>
             ELSE IF input = <<>>
             THEN /\ items' = [items EXCEPT
                                 ![editingItem].Deadline = <<>>,
                                 ![editingItem].Notes = FilterDeadline(@)]
                  /\ statusMsg' = "Deadline cleared!"
             ELSE IF d = <<>>
             THEN /\ statusMsg' = "Invalid date"
                  /\ UNCHANGED items
             ELSE /\ items' = [items EXCEPT
                                 ![editingItem].Deadline = d,
                                 ![editingItem].Notes = RewriteDeadline(@, d[1])]
                  /\ statusMsg' = "Deadline set!"
    /\ mode' = modeList
    /\ editingItem' = 0
    /\ UNCHANGED <<disk, file, run, pc, parseVars, roots, cursor, itemToDelete, reorderMode>>

\* updateSetDeadline, Enter.
SetDeadlineEnter == \E v \in DeadlineInputs, now \in Nows : SetDeadlineWith(v, now)

\* updateSetDeadline, Esc.
SetDeadlineEsc ==
    /\ DialogKey(modeSetDeadline)
    /\ mode' = modeList
    /\ editingItem' = 0
    /\ statusMsg' = "Cancelled"
    /\ UNCHANGED <<disk, file, run, pc, parseVars, docVars, cursor, itemToDelete, reorderMode>>

---------------------------------------------------------------------------
(* The program with its UI, started on one of a few files.                 *)

TreeFile    == <<HeadA, HeadTodoB, HeadA>>
DeepFile    == <<HeadA, HeadC, HeadTodoB>>
ClockFile   == <<HeadA, OpenClock, OpenClock>>
DrawerFile  == <<HeadA, LogbookLine, ClosedClock, EndLine>>
AgendaFile  == <<HeadA, DeadLine, HeadTodoB, SchedLine>>
EmptyFile   == <<>>
GapFile     == <<HeadA, SchedLine, HeadA, HeadA, SchedLine>>
PlanFile    == <<HeadA, PlanLine>>

UITexts ==
    {TreeFile, DeepFile, ClockFile, DrawerFile, AgendaFile, EmptyFile, GapFile,
     PlanFile}

Init == \E t \in UITexts : Start(t)

Next ==
    \/ ScanLine \/ ScanEnd \/ Quit
    \/ KeyUp \/ KeyDown \/ KeyShiftUp \/ KeyShiftDown
    \/ KeyLeft \/ KeyRight \/ KeyCycleState \/ KeyToggleFold
    \/ KeyEditNotes \/ KeyCapture \/ KeyAddSubTask \/ KeyDelete
    \/ KeyToggleView \/ KeySave \/ KeyToggleReorder
    \/ KeyClockIn \/ KeyClockOut \/ KeySetDeadline
    \/ EditEsc \/ ConfirmYes \/ ConfirmNo
    \/ CaptureEnter \/ CaptureEsc \/ AddSubTaskEnter \/ AddSubTaskEsc
    \/ SetDeadlineEnter \/ SetDeadlineEsc

Spec == Init /\ [][Next]_vars

---------------------------------------------------------------------------
(* Properties.                                                             *)

\* The scanner is about to handle the line text[pos].
Scanning == pc = "scan" /\ pos <= Len(text)

\* Save adds no line of its own to any item of the document.
NothingSynthesized ==
    \A id \in 1..Len(items) :
        /\ SynthScheduled(items[id]) = <<>>
        /\ SynthDeadline(items[id]) = <<>>
        /\ SynthLogbook(items[id]) = <<>>

\* The open clock entries of an item.
OpenEntries(it) == {i \in 1..Len(it.ClockEntries) : it.ClockEntries[i].End = <<>>}

\* C1: a text that holds every directive line its fields would synthesize
\* is written back exactly as it was read when nothing was changed between
\* the parse and the save.
C1_RoundTripExact ==
    (pc = "exit" /\ run = 1 /\ NothingSynthesized) => file = text

\* C2: the text one parse-and-save pass wrote is a fixed point: the second
\* pass, which reads it, writes the same text.
C2_SecondPassStable ==
    (pc = "exit" /\ run = 2) => file = text

\* C2, witness: the second pass has read and written back a text in which
\* the first pass had synthesized a LOGBOOK drawer.
C2_Witness ==
    /\ pc = "exit" /\ run = 2
    /\ text = <<HeadA, LogbookLine, OpenClock, EndLine, OpenClock>>
    /\ file = text

\* C3: in every state each item has at most one clock entry with no end.
C3_AtMostOneOpen ==
    \A id \in 1..Len(items) : Cardinality(OpenEntries(items[id])) <= 1

\* C4: after the parse every input line that is not a heading is in the
\* notes of some item.
C4_NoLineDropped ==
    pc = "ui" =>
        \A k \in 1..Len(text) :
            headingPattern(text[k]) = <<>> =>
                \E id \in 1..Len(items) :
                    \E i \in 1..Len(items[id].Notes) : items[id].Notes[i] = text[k]

\* The open item holds the start marker of a drawer in its notes.
HoldsDrawer ==
    /\ currentItem # 0
    /\ \E i \in 1..Len(items[currentItem].Notes) :
          drawerStart(items[currentItem].Notes[i])

\* C5: a line read inside a drawer whose start marker the open item holds
\* is appended to the notes of that item, creates no item and leaves the
\* open item the same.
C5_DrawerVerbatim ==
    [][(Scanning /\ inLogbookDrawer /\ HoldsDrawer /\ pos' = pos + 1) =>
          /\ currentItem' = currentItem
          /\ Len(items') = Len(items)
          /\ items'[currentItem].Notes = Append(items[currentItem].Notes, text[pos])
      ]_vars

\* C6: a line read inside a code block that is not a code-block boundary
\* is appended verbatim to the notes of the open item and nothing else
\* changes: no item is created, the open item stays, no scheduled, deadline
\* or clock field is set, and the code-block flag stays set.
C6_CodeBlockVerbatim ==
    [][(/\ Scanning /\ inCodeBlock /\ pos' = pos + 1
        /\ ~codeBlockStart(text[pos]) /\ ~codeBlockEnd(text[pos])) =>
          /\ currentItem' = currentItem
          /\ roots' = roots
          /\ inCodeBlock'
          /\ items' = IF currentItem = 0 THEN items
                      ELSE [items EXCEPT ![currentItem].Notes = Append(@, text[pos])]
      ]_vars

\* C6, witness: a heading line read inside a code block went to the notes
\* of the open item and made no item.
C6_Witness ==
    /\ pc = "scan" /\ pos = 4 /\ inCodeBlock
    /\ text = <<HeadA, BeginSrc, HeadTodoB>>
    /\ Len(items) = 1
    /\ items[1].Notes = <<BeginSrc, HeadTodoB>>

\* C7: the level of every child is greater than the level of its parent.
C7_ChildLevelGreater ==
    \A p \in 1..Len(items) :
        \A i \in 1..Len(items[p].Children) :
            items[items[p].Children[i]].Level > items[p].Level

\* C7, witness: a captured item was moved down the root list and then
\* given a sub-task.
C7_Witness ==
    /\ pc = "ui" /\ statusMsg = "Sub-task added!"
    /\ \E k \in 2..Len(roots) :
          /\ items[roots[k]].Title = <<"T">>
          /\ items[roots[k]].Children # <<>>
          /\ items[roots[k]].Level = 1

\* The greatest element of a set of numbers.
Max(S) == CHOOSE m \in S : \A k \in S : k <= m

\* The lists of the tree: the root list and every children list.
AllLists == {roots} \cup {items[id].Children : id \in 1..Len(items)}

\* C8: a heading becomes the last child of the most recent earlier heading
\* of a smaller level, and a root when there is none.  Items are numbered
\* in the order of their headings, so a list in increasing order received
\* each of its items at its end.
C8_ParentIsNearestShallower ==
    /\ \A id \in 1..Len(items) :
          LET shallower == {j \in 1..(id - 1) : items[j].Level < items[id].Level}
              siblings  == IF shallower = {} THEN roots
                           ELSE items[Max(shallower)].Children
          IN  \E k \in 1..Len(siblings) : siblings[k] = id
    /\ \A list \in AllLists :
          \A a, b \in 1..Len(list) : a < b => list[a] < list[b]

\* C8, witness: "* A", "** B", "* C" gives the roots A and C, and B under A.
C8_Witness ==
    /\ pc = "ui" /\ text = <<HeadA, HeadTodoB, HeadA>>
    /\ roots = <<1, 3>>
    /\ items[1].Children = <<2>>
    /\ items[1].Level = 1 /\ items[2].Level = 2 /\ items[3].Level = 1

\* C9: clockIn on an item with an open entry returns false and changes no
\* entry; otherwise it appends one open entry that starts now, keeps the
\* entries before it, and returns true.
C9_ClockIn ==
    [][(KeyClockIn /\ HasSel) =>
          LET old == items[Sel].ClockEntries
              new == items'[Sel].ClockEntries
          IN  IF OpenEntries(items[Sel]) # {}
              THEN new = old /\ statusMsg' = "Already clocked in"
              ELSE /\ Len(new) = Len(old) + 1
                   /\ SubSeq(new, 1, Len(old)) = old
                   /\ new[Len(new)].End = <<>>
                   /\ new[Len(new)].Start \in Nows
                   /\ statusMsg' = "Clocked in!"
      ]_vars

\* C9, witness: a clock-in was refused on an item that is clocked in.
C9_Witness ==
    /\ pc = "ui" /\ statusMsg = "Already clocked in"
    /\ HasSel /\ Cardinality(OpenEntries(items[Sel])) = 1

\* C10: clockOut puts the end now on the last entry that has none, changes
\* no other entry and returns true; with no open entry it returns false and
\* changes nothing.  It returns true exactly when the item was clocked in.
C10_ClockOut ==
    [][(KeyClockOut /\ HasSel) =>
          LET old == items[Sel].ClockEntries
              new == items'[Sel].ClockEntries
              open == OpenEntries(items[Sel])
          IN  /\ (statusMsg' = "Clocked out!") = IsClockedIn(items[Sel])
              /\ IF open = {}
                 THEN new = old /\ statusMsg' = "Not clocked in"
                 ELSE \E now \in Nows : new = [old EXCEPT ![Max(open)].End = <<now>>]
      ]_vars

\* C10, witness: of two open entries the later one was closed.
C10_Witness ==
    /\ pc = "ui" /\ statusMsg = "Clocked out!"
    /\ HasSel
    /\ Len(items[Sel].ClockEntries) = 2
    /\ items[Sel].ClockEntries[1].End = <<>>
    /\ items[Sel].ClockEntries[2].End # <<>>

\* The items a and b stand next to each other in one list of the tree.
AdjacentInList(a, b) ==
    \E list \in AllLists :
        \E i \in 1..(Len(list) - 1) : {list[i], list[i + 1]} = {a, b}

\* A key asks moveItemDown, or moveItemUp, to exchange the selected item
\* with its neighbour in the visible list.
MoveDownAsked ==
    /\ KeyShiftDown \/ (KeyDown /\ reorderMode)
    /\ Len(Visible) > 0 /\ cursor < Len(Visible) - 1

MoveUpAsked ==
    /\ KeyShiftUp \/ (KeyUp /\ reorderMode)
    /\ cursor > 0 /\ cursor < Len(Visible)

\* The swap of a and b is one the tree allows.
SwapValid(a, b) == AdjacentInList(a, b) /\ items[a].Level = items[b].Level

\* C11: a swap of two items that are not adjacent in one list, or that
\* have different levels, leaves the tree unchanged and is not reported
\* as a move.
C11_SwapRejected ==
    [][/\ (MoveDownAsked /\ ~SwapValid(Sel, Visible[cursor + 2])) =>
            (UNCHANGED docVars /\ statusMsg' # "Item moved down")
       /\ (MoveUpAsked /\ ~SwapValid(Sel, Visible[cursor])) =>
            (UNCHANGED docVars /\ statusMsg' # "Item moved up")
      ]_vars

\* The items of the subtree of the item id, and the items of the tree.
RECURSIVE SubtreeOf(_, _)
SubtreeOf(its, id) ==
    {id} \cup UNION {SubtreeOf(its, its[id].Children[k]) :
                        k \in 1..Len(its[id].Children)}

TreeOf(its, rts) == UNION {SubtreeOf(its, rts[k]) : k \in 1..Len(rts)}

\* The list without the item x.
Without(list, x) == SelectSeq(list, LAMBDA e : e # x)

\* C12: deleting an item of the tree takes the item and its subtree out of
\* the tree and nothing else: every list keeps its other items in their
\* order, and every item keeps its fields.
C12_DeleteFrame ==
    [][(ConfirmYes /\ itemToDelete \in TreeOf(items, roots)) =>
          /\ roots' = Without(roots, itemToDelete)
          /\ Len(items') = Len(items)
          /\ \A id \in 1..Len(items) :
                items'[id] = [items[id] EXCEPT !.Children = Without(@, itemToDelete)]
          /\ TreeOf(items', roots') =
                TreeOf(items, roots) \ SubtreeOf(items, itemToDelete)
      ]_vars

\* C12, witness: the first root of "* A", "** B", "* A" was deleted with
\* its child, and the other root is the tree that remains.
C12_Witness ==
    /\ pc = "ui" /\ statusMsg = "Item deleted" /\ text = TreeFile
    /\ roots = <<3>>
    /\ items[1].Children = <<2>>
    /\ TreeOf(items, roots) = {3}

---------------------------------------------------------------------------
(* deleteItem on any item reference: the confirm dialog of the UI that runs *)
(* on a parsed file is handed a reference that may stand outside the tree.  *)

\* The references deleteItem is called with are 1..MaxItems; those past
\* the heap are items that are linked nowhere in the tree.
InitDel ==
    \E t \in UITexts, target \in 1..MaxItems :
        /\ disk = "ok"
        /\ file = t /\ text = t /\ pos = Len(t) + 1 /\ run = 1 /\ pc = "ui"
        /\ items = ParseOrgFile(t).items /\ roots = ParseOrgFile(t).roots
        /\ currentItem = ParseOrgFile(t).currentItem
        /\ itemStack = ParseOrgFile(t).itemStack
        /\ inCodeBlock = ParseOrgFile(t).inCodeBlock
        /\ inLogbookDrawer = ParseOrgFile(t).inLogbookDrawer
        /\ cursor = 0 /\ mode = modeConfirmDelete /\ statusMsg = ""
        /\ editingItem = 0 /\ itemToDelete = target /\ reorderMode = FALSE
        /\ ops = 0

NextDel == ConfirmYes \/ ConfirmNo \/ KeyDown \/ KeyDelete \/ Quit

SpecDel == InitDel /\ [][NextDel]_vars

C14_ClearDeadline ==
    [][(SetDeadlineEnter /\ editingItem # 0 /\ statusMsg' = "Deadline cleared!") =>
          /\ items'[editingItem].Deadline = <<>>
          /\ \A i \in 1..Len(items'[editingItem].Notes) :
                deadlinePattern(items'[editingItem].Notes[i]) = <<>>
      ]_vars

\* The lines Save writes for the item it between its heading and its
\* children.
BodyLines(it) ==
    SynthScheduled(it) \o SynthDeadline(it) \o SynthLogbook(it) \o it.Notes

\* C15: setting the deadline of an item to a date gives the item that
\* deadline, and the lines saved for the item carry a deadline directive
\* with that date and none with another.
C15_SetDeadline ==
    [][(SetDeadlineEnter /\ editingItem # 0 /\ statusMsg' = "Deadline set!") =>
          LET it  == items'[editingItem]
              out == BodyLines(it)
              dl  == {i \in 1..Len(out) : deadlinePattern(out[i]) # <<>>}
          IN  /\ \E v \in DeadlineInputs, now \in Nows :
                    it.Deadline = parseDeadlineInput(TrimSpace(v), now)
              /\ it.Deadline # <<>>
              /\ dl # {}
              /\ \A i \in dl :
                    LET d == parseOrgDate(deadlinePattern(out[i])[1])
                    IN  d # <<>> /\ d[1].day = it.Deadline[1].day
      ]_vars

---------------------------------------------------------------------------
(* The program on a file system that may fail: main opens the file, reads  *)
(* it, runs the UI, in which items are captured and saved, and saves on    *)
(* exit.                                                                   *)

\* Open taking a file that does not exist for an error.
Open_MissingIsError ==
    /\ pc = "open"
    /\ pc' = IF disk \in {"missing", "denied"} THEN "parseError" ELSE "scan"
    /\ UNCHANGED <<disk, file, run, parseVars, docVars, uiVars, ops>>

\* os.Open in ParseOrgFile: a file that does not exist gives the empty
\* document, on which main runs the UI; another error is returned and main
\* exits.
Open ==
    /\ pc = "open"
    /\ pc' = IF disk = "missing" THEN "ui"
             ELSE IF disk = "denied" THEN "parseError"
             ELSE "scan"
    /\ UNCHANGED <<disk, file, run, parseVars, docVars, uiVars, ops>>

\* A read fails: scanner.Scan() returns false, scanner.Err() is not nil,
\* ParseOrgFile returns no document and main exits.
ScanFail ==
    /\ pc = "scan" /\ disk = "readFail"
    /\ pc' = "parseError"
    /\ items' = <<>> /\ roots' = <<>> /\ currentItem' = 0 /\ itemStack' = <<>>
    /\ UNCHANGED <<disk, file, run, text, pos, inCodeBlock, inLogbookDrawer,
                   uiVars, ops>>

\* The state when main calls ParseOrgFile: a file that is missing has no
\* lines.
InitIO ==
    \E t \in UITexts, d \in Disks :
        /\ d = "missing" => t = <<>>
        /\ disk = d
        /\ file = t /\ text = t /\ pos = 1 /\ run = 1 /\ pc = "open"
        /\ items = <<>> /\ roots = <<>> /\ currentItem = 0 /\ itemStack = <<>>
        /\ inCodeBlock = FALSE /\ inLogbookDrawer = FALSE
        /\ cursor = 0 /\ mode = modeList /\ statusMsg = ""
        /\ editingItem = 0 /\ itemToDelete = 0 /\ reorderMode = FALSE
        /\ ops = 0

NextIO ==
    \/ Open \/ ScanLine \/ ScanFail \/ ScanEnd
    \/ KeyCapture \/ CaptureEnter \/ KeySave \/ Quit

SpecIO == InitIO /\ [][NextIO]_vars

\* C16: Save returns an error when the file cannot be created or a write
\* fails: when the save key reports "Saved!", and when main exits without
\* an error after its save, the file holds the whole text of the document.
C16_SaveReportsFailure ==
    [][/\ (KeySave /\ statusMsg' = "Saved!") => file' = Save(items, roots)
       /\ (Quit /\ pc' = "exit") => file' = Save(items, roots)
      ]_vars

\* C17: loading a file that does not exist gives the empty document and no
\* error; any other failure to open or to read the file gives an error and
\* no document, and a load that failed never reaches the UI.
C17_Load ==
    [][/\ (pc = "open" /\ disk = "missing") =>
             (pc' = "ui" /\ items' = <<>> /\ roots' = <<>>)
       /\ (pc = "open" /\ disk = "denied") =>
             (pc' = "parseError" /\ items' = <<>> /\ roots' = <<>>)
       /\ (pc \in {"open", "scan"} /\ disk = "readFail" /\ pc' # pc) =>
             (pc' \in {"scan", "parseError"} /\
              (pc' = "parseError" => items' = <<>> /\ roots' = <<>>))
       /\ (pc \in {"open", "scan"} /\ pc' = "parseError") =>
             disk \in {"denied", "readFail"}
      ]_vars

\* C17, witness: the UI runs on the empty document of a file that does not
\* exist.
C17_Witness ==
    /\ pc = "ui" /\ disk = "missing" /\ ops = 0
    /\ items = <<>> /\ roots = <<>>

---------------------------------------------------------------------------
(* Properties of the serializer and of the content lines.                  *)

\* How many lines of the text t are the line l.
Count(t, l) == Cardinality({k \in 1..Len(t) : t[k] = l})

\* The line sets a scheduled date, a deadline or a clock entry when it is
\* read as content.
IsDirective(line) ==
    \/ (scheduledPattern(line) # <<>> /\ parseOrgDate(scheduledPattern(line)[1]) # <<>>)
    \/ (deadlinePattern(line) # <<>> /\ parseOrgDate(deadlinePattern(line)[1]) # <<>>)
    \/ ParseClock(line) # <<>>

\* C18: Save synthesizes a line only for a field whose marker no line of
\* the notes holds, so a directive line of the source is written as often
\* as the source has it and not once more.
C18_NoDirectiveTwice ==
    (pc = "exit" /\ run = 1) =>
        \A k \in 1..Len(text) :
            IsDirective(text[k]) => Count(file, text[k]) <= Count(text, text[k])

\* The items of the tree in document order: roots in list order, depth
\* first, the children of folded items included.
DocOrder(its, rts) ==
    GetAllItems([id \in 1..Len(its) |-> [its[id] EXCEPT !.Folded = FALSE]], rts)

\* The lines of the items of the sequence order, from index i on: for each
\* item its heading line, the lines synthesized for it, and its notes.
RECURSIVE Blocks(_, _, _)
Blocks(its, order, i) ==
    IF i > Len(order) THEN <<>>
    ELSE <<HeadingLine(its[order[i]])>> \o BodyLines(its[order[i]])
           \o Blocks(its, order, i + 1)

\* C19: Save writes every item of the tree once, in document order, folded
\* or not: its heading, then the synthesized scheduled line, deadline line
\* and drawer, then its notes, and the children after the notes.
C19_SaveOrder ==
    [][(KeySave \/ Quit) => file' = Blocks(items, DocOrder(items, roots), 1)]_vars

\* C19, witness: a folded item was saved with its child.
C19_Witness ==
    /\ pc = "ui" /\ statusMsg = "Saved!" /\ text = TreeFile
    /\ items[1].Folded /\ items[1].Children = <<2>>
    /\ file = <<HeadA, HeadTodoB, HeadA>>

\* C20: a content line that sets the scheduled date or the deadline of the
\* open item, or adds a clock entry to it, is appended to the notes of the
\* item as it is.
C20_DirectiveKept ==
    [][(/\ Scanning /\ pos' = pos + 1 /\ currentItem # 0
        /\ currentItem' = currentItem /\ Len(items') = Len(items)
        /\ \/ items'[currentItem].Scheduled # items[currentItem].Scheduled
           \/ items'[currentItem].Deadline # items[currentItem].Deadline
           \/ items'[currentItem].ClockEntries # items[currentItem].ClockEntries) =>
          items'[currentItem].Notes = Append(items[currentItem].Notes, text[pos])
      ]_vars

\* C20, witness: a scheduled line and a clock line gave the item its date
\* and an entry and are its notes.
C20_Witness ==
    /\ pc = "ui" /\ text = <<HeadA, SchedLine, ClosedClock>>
    /\ items[1].Scheduled # <<>> /\ Len(items[1].ClockEntries) = 1
    /\ items[1].Notes = <<SchedLine, ClosedClock>>

---------------------------------------------------------------------------
(* Properties of the state cycle.                                          *)

\* The five states in the order of the cycle.
StateOrder == <<StateNone, StateTODO, StatePROG, StateBLOCK, StateDONE>>

AllStates == {StateOrder[k] : k \in 1..Len(StateOrder)}

\* The state that follows st in the order, the first following the last.
Following(st) ==
    LET k == CHOOSE j \in 1..Len(StateOrder) : StateOrder[j] = st
    IN  StateOrder[(k % Len(StateOrder)) + 1]

\* C21: the cycle key takes the state of the selected item to the state
\* that follows it in the order None, TODO, PROG, BLOCK, DONE, None; five
\* steps from any state visit the five states and end where they began.
C21_CycleForward ==
    [][(KeyCycleState /\ HasSel) =>
          /\ items'[Sel].State = Following(items[Sel].State)
          /\ \A s \in AllStates :
                LET s1 == CycleState(s)
                    s2 == CycleState(s1)
                    s3 == CycleState(s2)
                    s4 == CycleState(s3)
                IN  /\ CycleState(s4) = s
                    /\ {s, s1, s2, s3, s4} = AllStates
      ]_vars

\* C21, witness: after five keys the first item of "* A", "** B", "* A",
\* which had no state, has no state again, and the last key cycled it.
C21_Witness ==
    /\ pc = "ui" /\ text = TreeFile /\ ops = MaxOps /\ cursor = 0
    /\ statusMsg = "State changed"
    /\ items[1].State = StateNone

\* C22: the Left key undoes the cycle key and the cycle key undoes the Left
\* key: for every state backward(forward(s)) = s and forward(backward(s)) = s.
C22_BackwardInverse ==
    [][(KeyLeft /\ HasSel) =>
          /\ CycleState(items'[Sel].State) = items[Sel].State
          /\ \A s \in AllStates :
                /\ cycleStateBackward(CycleState(s)) = s
                /\ CycleState(cycleStateBackward(s)) = s
      ]_vars

\* C22, witness: one Left key took the first item from no state to DONE.
C22_Witness ==
    /\ pc = "ui" /\ text = TreeFile /\ ops = 1
    /\ statusMsg = "State changed"
    /\ items[1].State = StateDONE

---------------------------------------------------------------------------
(* Properties of the visible list and of the operations on the tree.       *)

\* The parent of an item of the tree, 0 for a root.
ParentOf(id) ==
    LET ps == {p \in TreeOf(items, roots) :
                  \E k \in 1..Len(items[p].Children) : items[p].Children[k] = id}
    IN  IF ps = {} THEN 0 ELSE CHOOSE p \in ps : TRUE

\* The proper ancestors of an item of the tree.
RECURSIVE AncestorsOf(_)
AncestorsOf(id) ==
    IF ParentOf(id) = 0 THEN {} ELSE {ParentOf(id)} \cup AncestorsOf(ParentOf(id))

\* The way from the root list to an item: the index of its ancestor in the
\* root list, then the index in the children of that ancestor, and so on
\* down to the index of the item in its own list.
RECURSIVE PathOf(_)
PathOf(id) ==
    LET p    == ParentOf(id)
        list == IF p = 0 THEN roots ELSE items[p].Children
        k    == CHOOSE j \in 1..Len(list) : list[j] = id
    IN  (IF p = 0 THEN <<>> ELSE PathOf(p)) \o <<k>>

\* p comes before q in depth-first pre-order: p is a proper prefix of q, or
\* p has the smaller index where the two part.
Precedes(p, q) ==
    \/ Len(p) < Len(q) /\ SubSeq(q, 1, Len(p)) = p
    \/ \E k \in 1..Min({Len(p), Len(q)}) :
          SubSeq(p, 1, k - 1) = SubSeq(q, 1, k - 1) /\ p[k] < q[k]

\* C23: the visible list holds the items of the tree none of whose proper
\* ancestors is folded, each once, in depth-first pre-order.
C23_FlattenVisible ==
    pc = "ui" =>
        LET V == GetAllItems(items, roots)
        IN  /\ {V[k] : k \in 1..Len(V)} =
                  {id \in TreeOf(items, roots) :
                      \A a \in AncestorsOf(id) : ~items[a].Folded}
            /\ \A i, j \in 1..Len(V) :
                  i < j => Precedes(PathOf(V[i]), PathOf(V[j]))

\* C23, witness: the root of "* A", "*** C", "** B", which has the two
\* other items as children, was folded, which left a list of one item, and
\* unfolded, which gives a list of three.
C23_Witness ==
    /\ pc = "ui" /\ text = DeepFile /\ ops = 2 /\ statusMsg = "Unfolded"
    /\ roots = <<1>> /\ items[1].Children = <<2, 3>>
    /\ Len(GetAllItems(items, roots)) = 3
    /\ Len(GetAllItems([items EXCEPT ![1].Folded = TRUE], roots)) = 1


\* C24: a capture with an empty title changes nothing of the document; one
\* with a title adds one item of level 1, state TODO, that title, no notes
\* and no children, puts it first in the root list before the previous roots
\* in their order, and leaves every other item as it was.
C24_Capture ==
    [][CaptureEnter =>
          \E v \in TitleInputs :
             LET title == TrimSpace(v)
                 id    == Len(items) + 1
             IN  IF title = <<>>
                 THEN UNCHANGED <<items, roots>>
                 ELSE /\ Len(items') = id
                      /\ items'[id].Level = 1
                      /\ items'[id].State = StateTODO
                      /\ items'[id].Title = title
                      /\ items'[id].Notes = <<>>
                      /\ items'[id].Children = <<>>
                      /\ roots' = <<id>> \o roots
                      /\ \A k \in 1..Len(items) : items'[k] = items[k]]_vars

\* C24, witness: "T" was captured into a document of two roots.
C24_Witness ==
    /\ pc = "ui" /\ text = GapFile /\ ops = 2 /\ statusMsg = "TODO captured!"
    /\ Len(roots) = 4 /\ roots[1] = Len(items)
    /\ items[roots[1]].Title = <<"T">>

\* C25: adding a sub-task with a title to a parent adds one item of the level
\* of the parent plus one and state TODO as the last child of the parent,
\* after the children it had, and unfolds the parent; nothing else changes,
\* so the new item is visible whenever the parent is.
C25_AddSubTask ==
    [][AddSubTaskEnter =>
          \E v \in TitleInputs :
             LET title  == TrimSpace(v)
                 id     == Len(items) + 1
                 parent == editingItem
             IN  IF title = <<>> \/ parent = 0
                 THEN UNCHANGED <<items, roots>>
                 ELSE /\ Len(items') = id
                      /\ items'[id].Level = items[parent].Level + 1
                      /\ items'[id].State = StateTODO
                      /\ items'[id].Title = title
                      /\ items'[id].Children = <<>>
                      /\ items'[parent] =
                            [items[parent] EXCEPT !.Children = Append(@, id),
                                                  !.Folded = FALSE]
                      /\ \A k \in 1..Len(items) : k # parent => items'[k] = items[k]
                      /\ roots' = roots
                      /\ LET V == GetAllItems(items', roots')
                         IN  (\E k \in 1..Len(V) : V[k] = parent)
                                => (\E k \in 1..Len(V) : V[k] = id)]_vars

\* C25, witness: the root of "* A", "*** C", "** B" was folded and then given
\* a third child, which shows in the list below the two others.
C25_Witness ==
    /\ pc = "ui" /\ text = DeepFile /\ ops = 3 /\ statusMsg = "Sub-task added!"
    /\ items[1].Children = <<2, 3, 4>> /\ ~items[1].Folded
    /\ items[4].Level = 2 /\ items[4].State = StateTODO
    /\ GetAllItems(items, roots) = <<1, 2, 3, 4>>


\* The greatest number of markers of the heading lines looked at.
MaxStars == 3

\* Titles of heading lines: they start with neither white space nor a state
\* token.
HeadingTitles ==
    {<<"A">>, <<"B">>, <<"C">>, <<"A", " ", "x">>, <<"T", " ", "DONE">>,
     <<"A", " ", "SCHEDULED:", " ", "<", "2024-01-15", " ", "Mon", ">">>}

\* The heading line made of n markers, the state token st unless it is the
\* empty state, and the title t.
LineOf(n, st, t) ==
    Repeat("*", n) \o <<" ">> \o (IF st = StateNone THEN <<>> ELSE <<st, " ">>) \o t

\* The document is one root item of the given level, state and title with no
\* notes, no children and neither date.
SingleItem(its, rts, n, st, t) ==
    /\ Len(its) = 1 /\ rts = <<1>>
    /\ its[1].Level = n /\ its[1].State = st /\ its[1].Title = t
    /\ its[1].Notes = <<>> /\ its[1].Children = <<>>
    /\ its[1].Scheduled = <<>> /\ its[1].Deadline = <<>>

\* C26: the parse of a file of one heading line of n markers, an optional
\* state token and a title is one root item of level n, that state (the
\* empty one without a token) and that title, with no notes and no dates.
C26_SingleHeading ==
    (run = 1 /\ Len(text) = 1) =>
        \A n \in 1..MaxStars, st \in AllStates, t \in HeadingTitles :
            LET line == LineOf(n, st, t)
                doc  == ParseOrgFile(<<line>>)
            IN  /\ pc = "scan" => SingleItem(doc.items, doc.roots, n, st, t)
                /\ (pc = "ui" /\ text = <<line>>) => SingleItem(items, roots, n, st, t)

\* C26, witness: the file "** TODO B" was parsed.
C26_Witness ==
    /\ pc = "ui" /\ run = 1 /\ text = <<LineOf(2, StateTODO, <<"B">>)>>
    /\ SingleItem(items, roots, 2, StateTODO, <<"B">>)


---------------------------------------------------------------------------
(* Properties of a save followed by a parse of the saved file.             *)

\* The document ParseOrgFile reads from the file Save writes.
Reloaded(its, rts) == ParseOrgFile(Save(its, rts))

\* The reloaded document has as many items as the tree and, item by item in
\* document order, the same number of clock entries and the same answer of
\* IsClockedIn.
ClocksSurvive(its, rts) ==
    LET doc == Reloaded(its, rts)
        a   == DocOrder(its, rts)
        b   == DocOrder(doc.items, doc.roots)
    IN  /\ Len(a) = Len(b)
        /\ \A k \in 1..Len(a) :
              /\ Len(doc.items[b[k]].ClockEntries) = Len(its[a[k]].ClockEntries)
              /\ IsClockedIn(doc.items[b[k]]) = IsClockedIn(its[a[k]])

\* C27: a clock-in or clock-out on a document whose clock entries survive a
\* save and reload leaves a document whose clock entries survive it too.
C27_ClocksSurvive ==
    [][((KeyClockIn \/ KeyClockOut) /\ ClocksSurvive(items, roots))
          => ClocksSurvive(items', roots')]_vars


\* The places the items of list have in the sequence order.
PlacesIn(order, list) ==
    [j \in 1..Len(list) |-> CHOOSE k \in 1..Len(order) : order[k] = list[j]]

\* The reloaded document has, item by item in document order, the level,
\* state and title of the tree, the same roots and the same children in the
\* same order.
TreeSurvives(its, rts) ==
    LET doc == Reloaded(its, rts)
        a   == DocOrder(its, rts)
        b   == DocOrder(doc.items, doc.roots)
    IN  /\ Len(a) = Len(b)
        /\ PlacesIn(a, rts) = PlacesIn(b, doc.roots)
        /\ \A k \in 1..Len(a) :
              /\ doc.items[b[k]].Level = its[a[k]].Level
              /\ doc.items[b[k]].State = its[a[k]].State
              /\ doc.items[b[k]].Title = its[a[k]].Title
              /\ PlacesIn(b, doc.items[b[k]].Children) = PlacesIn(a, its[a[k]].Children)

\* A capture, an added sub-task, a delete, a swap or a state cycle.
TreeOp ==
    \/ CaptureEnter \/ AddSubTaskEnter \/ ConfirmYes
    \/ KeyShiftUp \/ KeyShiftDown
    \/ KeyLeft \/ KeyRight \/ KeyCycleState

\* C28: a capture, added sub-task, delete, swap or state cycle on a document
\* whose tree survives a save and reload leaves a document whose tree
\* survives it too.
C28_TreeSurvives ==
    [][(TreeOp /\ TreeSurvives(items, roots)) => TreeSurvives(items', roots')]_vars


---------------------------------------------------------------------------
(* Properties of the keys of the main view.                                *)

\* C29: when the Left, Right or cycle-state key leaves the selected item in
\* state DONE, no clock entry of the item is without an end afterwards.
C29_DoneClockedOut ==
    [][((KeyLeft \/ KeyRight \/ KeyCycleState) /\ HasSel
           /\ items'[Sel].State = StateDONE)
          => OpenEntries(items'[Sel]) = {}]_vars


\* C30: in list and agenda mode the cursor indexes an item of the visible
\* list whenever the list is not empty.
C30_CursorInRange ==
    (pc = "ui" /\ mode \in {modeList, modeAgenda} /\ Len(Visible) > 0)
        => (0 <= cursor /\ cursor < Len(Visible))


---------------------------------------------------------------------------
(* Frame properties of the swap and of the dialogs.                        *)

\* The list with a in the places of b and b in the places of a.
Exchanged(list, a, b) ==
    [k \in 1..Len(list) |->
        IF list[k] = a THEN b ELSE IF list[k] = b THEN a ELSE list[k]]

\* The step exchanges the places of a and b in the list that holds them and
\* changes nothing else: every list keeps its length and its other items in
\* their places, and every item, a and b too, keeps its fields and its
\* children.
SwapFrame(a, b) ==
    /\ roots' = Exchanged(roots, a, b)
    /\ Len(items') = Len(items)
    /\ \A id \in 1..Len(items) :
          items'[id] = [items[id] EXCEPT !.Children = Exchanged(@, a, b)]
    /\ items'[a] = items[a] /\ items'[b] = items[b]
    /\ <<items', roots'>> # <<items, roots>>
    /\ TreeOf(items', roots') = TreeOf(items, roots)

\* C31: a move of the selected item over a neighbour that stands next to it
\* in one list and has its level exchanges the places of the two in that
\* list and changes nothing else in the tree.
C31_SwapFrame ==
    [][/\ (MoveDownAsked /\ SwapValid(Sel, Visible[cursor + 2])) =>
            (SwapFrame(Sel, Visible[cursor + 2]) /\ statusMsg' = "Item moved down")
       /\ (MoveUpAsked /\ SwapValid(Sel, Visible[cursor])) =>
            (SwapFrame(Sel, Visible[cursor]) /\ statusMsg' = "Item moved up")
      ]_vars

\* C31, witness: the first item of "* A", "** TODO B", "* A" was given a
\* second child, and its first child B was moved down over the new one.
C31_Witness ==
    /\ pc = "ui" /\ text = TreeFile /\ ops = 4 /\ statusMsg = "Item moved down"
    /\ roots = <<1, 3>> /\ items[1].Children = <<4, 2>>
    /\ items[4].Level = items[2].Level /\ cursor = 2


\* C32: Esc in the capture, add-sub-task and set-deadline dialogs, and n, N
\* or Esc in the delete confirmation, go back to list mode and leave every
\* item and every list of the tree as it was.
C32_CancelFrame ==
    [][(CaptureEsc \/ AddSubTaskEsc \/ SetDeadlineEsc \/ ConfirmNo) =>
          /\ mode' = modeList
          /\ statusMsg' = "Cancelled"
          /\ items' = items /\ roots' = roots]_vars

\* C32, witness: a dialog opened on the file "* A" with a scheduled date and
\* a deadline was cancelled; the document is the parsed one.
C32_Witness ==
    /\ pc = "ui" /\ text = PlanFile /\ ops = 3 /\ statusMsg = "Cancelled"
    /\ mode = modeList /\ itemToDelete = 0 /\ editingItem = 0
    /\ items = ParseOrgFile(text).items /\ roots = ParseOrgFile(text).roots
    /\ items[1].Deadline # <<>> /\ Len(items[1].Notes) = 1


\* The text is a date the dialog asks for: one absolute date in one of the
\* three layouts (YYYY-MM-DD, YYYY/MM/DD, MM/DD/YYYY), or "+" and a number
\* of days and nothing else.
ValidDeadlineInput(input) ==
    \/ Len(input) = 1 /\ input[1] \in Days \cup {"2024/01/16"}
    \/ Len(input) = 2 /\ input[1] = "+" /\ input[2] = "10"

\* C33: Enter in the deadline dialog on a text that is neither blank nor a
\* valid date leaves every item and every list as it was and reports the
\* invalid date in the status line.
C33_InvalidDeadline ==
    [][\A v \in DeadlineInputs, now \in Nows :
          (/\ SetDeadlineWith(v, now) /\ editingItem # 0
           /\ TrimSpace(v) # <<>> /\ ~ValidDeadlineInput(TrimSpace(v)))
             => (items' = items /\ roots' = roots /\ statusMsg' = "Invalid date")
      ]_vars

===========================================================================
